---- MODULE Spec2Model ----
(***************************************************************************)
(* Model of the Autocompleter class (src/autocompleter.py): an n-gram      *)
(* counter built by fit() from tokenized training sentences, and the       *)
(* queries in_vocabulary, get_next_word, get_sentence and                  *)
(* generate_completions that read it.                                      *)
(*                                                                         *)
(* A token is a sequence of characters, so that str.startswith is a real   *)
(* prefix test.  A FreqDist (a Python dict with insertion order) is a      *)
(* sequence of <<word, count>> pairs in first-insertion order.  The        *)
(* NgramCounter is the triple <<unigrams, bigrams, trigrams>>; the         *)
(* entries of orders 2 and 3 are functions from a context (a tuple of      *)
(* tokens) to a FreqDist.  An Autocompleter that was never fitted has      *)
(* ngram_counter = None.                                                   *)
(*                                                                         *)
(* The text pipeline around the class (cleaning, spell correction, entity  *)
(* encoding, word tokenization, detokenization, true casing) is made of    *)
(* library calls; generate_completions is modelled from the token list the *)
(* tokenizer yields to the token lists handed to the detokenizer.          *)
(*                                                                         *)
(* Three specifications share the state.  Spec runs one call at a time     *)
(* and reads a context never counted as the empty FreqDist.  LookupSpec    *)
(* keeps in the counter the empty entries such reads create.  BesideSpec   *)
(* runs a query read by read while fit may replace the counter.            *)
(***************************************************************************)
EXTENDS Integers, Sequences, FiniteSets, TLC

\* ------------------------------------------------------------- constants
RIGHT_SENT_PAD == <<"<", "/", "s", ">">>
LEFT_SENT_PAD == <<"<", "s", ">">>
\* default of in_vocabulary's count_threshold, the one generate_completions uses
COUNT_THRESHOLD == 50

\* ---------------------------------------------------------------- bounds
\* a training corpus holds at most MaxBigrams bigrams (a sentence of L tokens
\* has L+1 of them), counting each distinct run of a repeated sentence once
MaxBigrams == 4
\* longest prefix_string handed to a query
MaxPrefixLen == 2
\* largest top_n / max_num_of_sentences
MaxTopN == 2
\* largest max_sentence_length
MaxCap == 4

\* ---------------------------------------------------------------- inputs
Vocab == {<<"h">>, <<"h", "e">>}
Tokens == Vocab \cup {LEFT_SENT_PAD, RIGHT_SENT_PAD}
StartStrings == {<<>>} \cup Vocab
\* a training sentence occurs once or COUNT_THRESHOLD times in a row, so that a word
\* can be counted exactly COUNT_THRESHOLD times and once more
Copies == {1, COUNT_THRESHOLD}

RECURSIVE SeqsOfLen(_, _)
SeqsOfLen(S, n) ==
    IF n = 0 THEN {<<>>}
    ELSE {Append(s, x) : s \in SeqsOfLen(S, n - 1), x \in S}

SeqsUpTo(S, n) == UNION {SeqsOfLen(S, k) : k \in 0..n}

\* the corpora, as runs <<sentence, copies>>, holding exactly k bigrams
RECURSIVE CorporaOfSize(_)
CorporaOfSize(k) ==
    IF k = 0 THEN {<<>>}
    ELSE UNION {{Append(c, <<s, m>>) : c \in CorporaOfSize(k - l - 1),
                                      s \in SeqsOfLen(Vocab, l), m \in Copies}
                : l \in 0..(k - 1)}

Corpora == UNION {CorporaOfSize(k) : k \in 0..MaxBigrams}

\* the list of tokenized sentences a corpus stands for (tokenized_words in fit)
RECURSIVE Expand(_)
Expand(c) ==
    IF c = <<>> THEN <<>>
    ELSE LET run == c[Len(c)]
         IN Expand(SubSeq(c, 1, Len(c) - 1)) \o [i \in 1..run[2] |-> run[1]]

\* ------------------------------------------------------------ the counter
None == <<>>

\* (mutant) the sentence padded with the width of the trigram order at every order
PadTrigramWidth(sentence, n) ==
    <<LEFT_SENT_PAD, LEFT_SENT_PAD>> \o sentence \o <<RIGHT_SENT_PAD, RIGHT_SENT_PAD>>

\* nltk.ngrams(sentence, n, True, True, LEFT_SENT_PAD, RIGHT_SENT_PAD)
Pad(sentence, n) ==
    [i \in 1..(n - 1) |-> LEFT_SENT_PAD] \o sentence \o [i \in 1..(n - 1) |-> RIGHT_SENT_PAD]

Ngrams(sentence, n) ==
    LET padded == Pad(sentence, n)
    IN [i \in 1..(Len(padded) - n + 1) |-> SubSeq(padded, i, i + n - 1)]

\* trigrams + bigrams + unigrams: one n-gram sequence per sentence and order
NgramText(tokenized_words) ==
    LET OfOrder(n) == [i \in 1..Len(tokenized_words) |-> Ngrams(tokenized_words[i], n)]
    IN OfOrder(3) \o OfOrder(2) \o OfOrder(1)

\* freqdist[word] += 1: a new word goes to the end of the dict
Inc(fd, word) ==
    IF \E i \in 1..Len(fd) : fd[i][1] = word
    THEN LET i == CHOOSE j \in 1..Len(fd) : fd[j][1] = word
         IN [fd EXCEPT ![i][2] = @ + 1]
    ELSE Append(fd, <<word, 1>>)

\* the body of NgramCounter.update's loop for one n-gram
CountNgram(counter, ngram) ==
    IF Len(ngram) = 1
    THEN [counter EXCEPT ![1] = Inc(@, ngram[1])]
    ELSE LET context == SubSeq(ngram, 1, Len(ngram) - 1)
             word == ngram[Len(ngram)]
             cfd == counter[Len(ngram)]
         IN [counter EXCEPT ![Len(ngram)] =
                IF context \in DOMAIN cfd
                THEN [cfd EXCEPT ![context] = Inc(@, word)]
                ELSE cfd @@ (context :> Inc(<<>>, word))]

\* for ngram in sent
RECURSIVE CountSent(_, _, _)
CountSent(counter, sent, i) ==
    IF i > Len(sent) THEN counter
    ELSE CountSent(CountNgram(counter, sent[i]), sent, i + 1)

\* for sent in ngram_text, over text[lo..hi]: the range is halved, and the counter
\* of the first half is bound to a value before the second half is counted
RECURSIVE CountText(_, _, _, _)
CountText(counter, text, lo, hi) ==
    IF lo > hi THEN counter
    ELSE IF lo = hi THEN CountSent(counter, text[lo], 1)
    ELSE LET mid == (lo + hi) \div 2
         IN CHOOSE c \in {CountText(half, text, mid + 1, hi) :
                          half \in {CountText(counter, text, lo, mid)}} : TRUE

EmptyCounter == <<<<>>, <<>>, <<>>>>

\* counter.NgramCounter(trigrams + bigrams + unigrams)
NgramCounter(tokenized_words) ==
    LET text == NgramText(tokenized_words)
    IN CountText(EmptyCounter, text, 1, Len(text))

\* every corpus with the counter fit builds from it
TrainedModels == {<<c, NgramCounter(Expand(c))>> : c \in Corpora}

\* ---------------------------------------------------------------- queries
\* FreqDist.__getitem__: the count of a word, 0 for a word never counted
Freq(fd, word) ==
    IF \E i \in 1..Len(fd) : fd[i][1] = word
    THEN fd[CHOOSE i \in 1..Len(fd) : fd[i][1] = word][2]
    ELSE 0

\* FreqDist.N(): the sum of the counts
RECURSIVE N(_)
N(fd) == IF fd = <<>> THEN 0 ELSE fd[1][2] + N(Tail(fd))

\* the sequence without its i-th element
Remove(seq, i) == SubSeq(seq, 1, i - 1) \o SubSeq(seq, i + 1, Len(seq))

\* (mutant) the latest among the elements of the largest count
FirstLatest(fd) ==
    CHOOSE i \in 1..Len(fd) :
        /\ \A j \in 1..Len(fd) : fd[j][2] <= fd[i][2]
        /\ \A j \in (i + 1)..Len(fd) : fd[j][2] < fd[i][2]

\* the element most_common takes next: the largest count, the earliest among equals
First(fd) ==
    CHOOSE i \in 1..Len(fd) :
        /\ \A j \in 1..Len(fd) : fd[j][2] <= fd[i][2]
        /\ \A j \in 1..(i - 1) : fd[j][2] < fd[i][2]

\* Counter.most_common(n) = heapq.nlargest(n, items, key = count)
RECURSIVE most_common(_, _)
most_common(fd, n) ==
    IF n <= 0 \/ fd = <<>> THEN <<>>
    ELSE <<fd[First(fd)]>> \o most_common(Remove(fd, First(fd)), n - 1)

\* ngram_counter[context] for a tuple of one or two tokens: the FreqDist of order
\* len(context) + 1, empty for a context never counted
ContextDist(counter, context) ==
    LET cfd == counter[Len(context) + 1]
    IN IF context \in DOMAIN cfd THEN cfd[context] ELSE <<>>

\* word.startswith(start_string)
StartsWith(word, start_string) ==
    /\ Len(start_string) <= Len(word)
    /\ SubSeq(word, 1, Len(start_string)) = start_string

\* (mutant) seq[-1:]: the last token alone
LastOne(seq) == SubSeq(seq, IF Len(seq) > 1 THEN Len(seq) ELSE 1, Len(seq))

\* seq[-2:]
LastTwo(seq) == SubSeq(seq, IF Len(seq) > 2 THEN Len(seq) - 1 ELSE 1, Len(seq))

\* (mutant) seq[:n + 1]
TakeOneMore(seq, n) == SubSeq(seq, 1, IF n + 1 < Len(seq) THEN n + 1 ELSE Len(seq))

\* seq[:n] for n >= 0
Take(seq, n) == SubSeq(seq, 1, IF n < Len(seq) THEN n ELSE Len(seq))

\* (mutant) a word counted exactly count_threshold times is in the vocabulary
in_vocabulary_at_least(counter, word, count_threshold) ==
    IF counter = None THEN FALSE
    ELSE Freq(counter[1], word) >= count_threshold

in_vocabulary(counter, word, count_threshold) ==
    IF counter = None THEN FALSE
    ELSE Freq(counter[1], word) > count_threshold

get_next_word(counter, prefix_string, top_n, start_string) ==
    IF counter = None THEN <<>>
    ELSE IF Len(prefix_string) < 1 THEN <<>>
    ELSE LET conditional_word_tuple == LastTwo(prefix_string)
             number_of_words == N(counter[1])
             predicted_words ==
                 most_common(ContextDist(counter, conditional_word_tuple), number_of_words)
             matching == SelectSeq(predicted_words, LAMBDA p : StartsWith(p[1], start_string))
         IN Take([i \in 1..Len(matching) |-> matching[i][1]], top_n)

\* (mutant) the loop appends the top candidate whatever it is
RECURSIVE GrowThroughEnd(_, _, _)
GrowThroughEnd(counter, sentence, left) ==
    IF left <= 0 THEN sentence
    ELSE LET word == get_next_word(counter, sentence, 1, <<>>)
         IN IF Len(word) = 0 THEN sentence
            ELSE GrowThroughEnd(counter, Append(sentence, word[1]), left - 1)

\* (mutant) the loop runs once more than max_sentence_length allows
RECURSIVE GrowOneMore(_, _, _)
GrowOneMore(counter, sentence, left) ==
    IF left < 0 THEN sentence
    ELSE LET word == get_next_word(counter, sentence, 1, <<>>)
         IN IF Len(word) = 0 \/ word[1] = RIGHT_SENT_PAD THEN sentence
            ELSE GrowOneMore(counter, Append(sentence, word[1]), left - 1)

\* the loop of get_sentence with `left` iterations to go
RECURSIVE Grow(_, _, _)
Grow(counter, sentence, left) ==
    IF left <= 0 THEN sentence
    ELSE LET word == get_next_word(counter, sentence, 1, <<>>)
         IN IF Len(word) = 0 \/ word[1] = RIGHT_SENT_PAD THEN sentence
            ELSE Grow(counter, Append(sentence, word[1]), left - 1)

\* (mutant) the loop runs max_sentence_length times, whatever the prefix holds
get_sentence_full_loop(counter, prefix_string, max_sentence_length) ==
    IF counter = None THEN <<>>
    ELSE IF Len(prefix_string) >= max_sentence_length \/ Len(prefix_string) = 0
         THEN prefix_string
    ELSE Grow(counter, prefix_string, max_sentence_length)

\* (mutant) an Autocompleter never fitted hands the prefix back
get_sentence_unfitted_prefix(counter, prefix_string, max_sentence_length) ==
    IF counter = None THEN prefix_string
    ELSE IF Len(prefix_string) >= max_sentence_length \/ Len(prefix_string) = 0
         THEN prefix_string
    ELSE Grow(counter, prefix_string, max_sentence_length - Len(prefix_string))

get_sentence(counter, prefix_string, max_sentence_length) ==
    IF counter = None THEN <<>>
    ELSE IF Len(prefix_string) >= max_sentence_length \/ Len(prefix_string) = 0
         THEN prefix_string
    ELSE Grow(counter, prefix_string, max_sentence_length - Len(prefix_string))

\* from the tokenized prefix to the sentences handed to the detokenizer
generate_completions(counter, tokenized_words, max_sentence_length, max_num_of_sentences) ==
    IF counter = None THEN <<>>
    ELSE IF Len(tokenized_words) = 0 THEN <<>>
    ELSE LET last == tokenized_words[Len(tokenized_words)]
             partial == ~in_vocabulary(counter, last, COUNT_THRESHOLD)
             start_string == IF partial THEN last ELSE <<>>
             remaining == IF partial
                          THEN SubSeq(tokenized_words, 1, Len(tokenized_words) - 1)
                          ELSE tokenized_words
             top_predicted_words ==
                 get_next_word(counter, remaining, max_num_of_sentences, start_string)
         IN [i \in 1..Len(top_predicted_words) |->
                get_sentence(counter, Append(remaining, top_predicted_words[i]),
                             max_sentence_length)]

\* --------------------------------------------- lookups that leave an entry
\* The ConditionalFreqDist of orders 2 and 3 is a defaultdict(FreqDist): reading
\* ngram_counter[context] for a context never counted stores an empty FreqDist
\* under it.  ContextDist above reads such a context as the empty FreqDist and
\* the queries above leave the counter alone; the definitions below give, with
\* each result, the counter the query leaves behind.

\* (mutant) the entry is created on every read, also over an entry that exists
LookupFresh(counter, context) ==
    [counter EXCEPT ![Len(context) + 1] = (context :> <<>>) @@ @]

\* the counter after ngram_counter[context]
Lookup(counter, context) ==
    LET cfd == counter[Len(context) + 1]
    IN IF context \in DOMAIN cfd THEN counter
       ELSE [counter EXCEPT ![Len(context) + 1] = cfd @@ (context :> <<>>)]

\* get_next_word: <<the words returned, the counter afterwards>>
get_next_word_lookup(counter, prefix_string, top_n, start_string) ==
    IF counter = None \/ Len(prefix_string) < 1 THEN <<<<>>, counter>>
    ELSE LET after == Lookup(counter, LastTwo(prefix_string))
         IN <<get_next_word(after, prefix_string, top_n, start_string), after>>

\* the loop of get_sentence: <<the sentence, the counter afterwards>>
RECURSIVE GrowLookup(_, _, _)
GrowLookup(counter, sentence, left) ==
    IF left <= 0 THEN <<sentence, counter>>
    ELSE LET next == get_next_word_lookup(counter, sentence, 1, <<>>)
             word == next[1]
         IN IF Len(word) = 0 \/ word[1] = RIGHT_SENT_PAD THEN <<sentence, next[2]>>
            ELSE GrowLookup(next[2], Append(sentence, word[1]), left - 1)

\* get_sentence: <<the sentence, the counter afterwards>>
get_sentence_lookup(counter, prefix_string, max_sentence_length) ==
    IF counter = None THEN <<<<>>, counter>>
    ELSE IF Len(prefix_string) >= max_sentence_length \/ Len(prefix_string) = 0
         THEN <<prefix_string, counter>>
    ELSE GrowLookup(counter, prefix_string, max_sentence_length - Len(prefix_string))

\* for word in top_predicted_words, from the i-th word on:
\* <<the sentences so far, the counter afterwards>>
RECURSIVE CompleteLookup(_, _, _, _, _, _)
CompleteLookup(counter, remaining, words, i, max_sentence_length, done) ==
    IF i > Len(words) THEN <<done, counter>>
    ELSE LET grown == get_sentence_lookup(counter, Append(remaining, words[i]),
                                          max_sentence_length)
         IN CompleteLookup(grown[2], remaining, words, i + 1, max_sentence_length,
                           Append(done, grown[1]))

\* generate_completions: <<the sentences, the counter afterwards>>; in_vocabulary
\* reads a unigram count, which stores nothing
generate_completions_lookup(counter, tokenized_words, max_sentence_length, max_num_of_sentences) ==
    IF counter = None THEN <<<<>>, counter>>
    ELSE IF Len(tokenized_words) = 0 THEN <<<<>>, counter>>
    ELSE LET last == tokenized_words[Len(tokenized_words)]
             partial == ~in_vocabulary(counter, last, COUNT_THRESHOLD)
             start_string == IF partial THEN last ELSE <<>>
             remaining == IF partial
                          THEN SubSeq(tokenized_words, 1, Len(tokenized_words) - 1)
                          ELSE tokenized_words
             top == get_next_word_lookup(counter, remaining, max_num_of_sentences,
                                         start_string)
         IN CompleteLookup(top[2], remaining, top[1], 1, max_sentence_length, <<>>)

\* ------------------------------------------------------------------ state
\* ngram_counter: the attribute of the Autocompleter
\* corpus:        the training sentences of the last fit, as runs
\* call:          the query the caller made last
\* result:        the list of words get_next_word or get_sentence returned
\* completions:   the list of sentences generate_completions returned
\* known:         what in_vocabulary returned
\* reader:        where a query that runs beside fit stands, with its locals
VARIABLES ngram_counter, corpus, call, result, completions, known, reader
vars == <<ngram_counter, corpus, call, result, completions, known, reader>>

Idle == [op |-> "idle", prefix |-> <<>>, num |-> 0, start |-> <<>>, cap |-> 0]

\* no query is running beside fit
Ready ==
    [pc |-> "idle", nwret |-> "top", gsret |-> "top", sentence |-> <<>>, top |-> 0,
     start |-> <<>>, total |-> 0, left |-> 0, remaining |-> <<>>, words |-> <<>>,
     i |-> 0, done |-> <<>>, out |-> <<>>, old |-> <<>>, oldc |-> <<>>, refit |-> FALSE]

\* prefix_string of get_next_word and get_sentence: any tokens, sentinels included
Prefixes == SeqsUpTo(Tokens, MaxPrefixLen)
\* what the word tokenizer yields: word_tokenize never sees a sentinel, since
\* format_and_clean has removed every <...>
TokenizedPrefixes == SeqsUpTo(Vocab, MaxPrefixLen)

Init ==
    /\ ngram_counter = None
    /\ corpus = <<>>
    /\ call = Idle
    /\ result = <<>>
    /\ completions = <<>>
    /\ known = FALSE
    /\ reader = Ready

Fit ==
    /\ call.op = "idle"
    /\ \E t \in TrainedModels :
        /\ corpus' = t[1]
        /\ ngram_counter' = t[2]
    /\ UNCHANGED <<call, result, completions, known>>
    /\ UNCHANGED reader

InVocabulary ==
    /\ call.op = "idle"
    /\ \E word \in Tokens, count_threshold \in {0, COUNT_THRESHOLD} :
        /\ call' = [Idle EXCEPT !.op = "in_vocabulary", !.prefix = <<word>>,
                                !.num = count_threshold]
        /\ known' = in_vocabulary(ngram_counter, word, count_threshold)
    /\ result' = <<>>
    /\ completions' = <<>>
    /\ UNCHANGED <<ngram_counter, corpus>>
    /\ UNCHANGED reader

GetNextWord ==
    /\ call.op = "idle"
    /\ \E prefix_string \in Prefixes, top_n \in 0..MaxTopN, start_string \in StartStrings :
        /\ call' = [Idle EXCEPT !.op = "get_next_word", !.prefix = prefix_string,
                                !.num = top_n, !.start = start_string]
        /\ result' = get_next_word(ngram_counter, prefix_string, top_n, start_string)
    /\ completions' = <<>>
    /\ known' = FALSE
    /\ UNCHANGED <<ngram_counter, corpus>>
    /\ UNCHANGED reader

GetSentence ==
    /\ call.op = "idle"
    /\ \E prefix_string \in Prefixes, max_sentence_length \in 0..MaxCap :
        /\ call' = [Idle EXCEPT !.op = "get_sentence", !.prefix = prefix_string,
                                !.cap = max_sentence_length]
        /\ result' = get_sentence(ngram_counter, prefix_string, max_sentence_length)
    /\ completions' = <<>>
    /\ known' = FALSE
    /\ UNCHANGED <<ngram_counter, corpus>>
    /\ UNCHANGED reader

GenerateCompletions ==
    /\ call.op = "idle"
    /\ \E tokenized_words \in TokenizedPrefixes, max_sentence_length \in 0..MaxCap,
          max_num_of_sentences \in 0..MaxTopN :
        /\ call' = [Idle EXCEPT !.op = "generate_completions", !.prefix = tokenized_words,
                                !.num = max_num_of_sentences, !.cap = max_sentence_length]
        /\ completions' = generate_completions(ngram_counter, tokenized_words,
                                               max_sentence_length, max_num_of_sentences)
    /\ result' = <<>>
    /\ known' = FALSE
    /\ UNCHANGED <<ngram_counter, corpus>>
    /\ UNCHANGED reader

\* the caller takes the result; the object is ready for the next call
Return ==
    /\ call.op # "idle"
    /\ call' = Idle
    /\ result' = <<>>
    /\ completions' = <<>>
    /\ known' = FALSE
    /\ UNCHANGED <<ngram_counter, corpus>>
    /\ UNCHANGED reader

Next ==
    \/ Fit
    \/ InVocabulary
    \/ GetNextWord
    \/ GetSentence
    \/ GenerateCompletions
    \/ Return

Spec == Init /\ [][Next]_vars

\* ------------------------------------- the object with the entries lookups leave
\* The same operations on the counter as it is stored: a query leaves in
\* ngram_counter the empty entries its lookups create.  The prefixes are those
\* the word tokenizer yields.

\* the counters built from at most one training sentence, given once or
\* COUNT_THRESHOLD times
LookupModels == {t \in TrainedModels : Len(t[1]) <= 1}

FitLookup ==
    /\ call.op = "idle"
    /\ \E t \in LookupModels :
        /\ corpus' = t[1]
        /\ ngram_counter' = t[2]
    /\ UNCHANGED <<call, result, completions, known>>
    /\ UNCHANGED reader

GetNextWordLookup ==
    /\ call.op = "idle"
    /\ \E prefix_string \in TokenizedPrefixes, top_n \in 0..MaxTopN,
          start_string \in StartStrings :
        LET next == get_next_word_lookup(ngram_counter, prefix_string, top_n, start_string)
        IN /\ call' = [Idle EXCEPT !.op = "get_next_word", !.prefix = prefix_string,
                                   !.num = top_n, !.start = start_string]
           /\ result' = next[1]
           /\ ngram_counter' = next[2]
    /\ completions' = <<>>
    /\ known' = FALSE
    /\ UNCHANGED corpus
    /\ UNCHANGED reader

GetSentenceLookup ==
    /\ call.op = "idle"
    /\ \E prefix_string \in TokenizedPrefixes, max_sentence_length \in 0..MaxCap :
        LET grown == get_sentence_lookup(ngram_counter, prefix_string, max_sentence_length)
        IN /\ call' = [Idle EXCEPT !.op = "get_sentence", !.prefix = prefix_string,
                                   !.cap = max_sentence_length]
           /\ result' = grown[1]
           /\ ngram_counter' = grown[2]
    /\ completions' = <<>>
    /\ known' = FALSE
    /\ UNCHANGED corpus
    /\ UNCHANGED reader

GenerateCompletionsLookup ==
    /\ call.op = "idle"
    /\ \E tokenized_words \in TokenizedPrefixes, max_sentence_length \in 0..MaxCap,
          max_num_of_sentences \in 0..MaxTopN :
        LET made == generate_completions_lookup(ngram_counter, tokenized_words,
                                                max_sentence_length, max_num_of_sentences)
        IN /\ call' = [Idle EXCEPT !.op = "generate_completions",
                                   !.prefix = tokenized_words,
                                   !.num = max_num_of_sentences, !.cap = max_sentence_length]
           /\ completions' = made[1]
           /\ ngram_counter' = made[2]
    /\ result' = <<>>
    /\ known' = FALSE
    /\ UNCHANGED corpus
    /\ UNCHANGED reader

LookupNext ==
    \/ FitLookup
    \/ InVocabulary
    \/ GetNextWordLookup
    \/ GetSentenceLookup
    \/ GenerateCompletionsLookup
    \/ Return

LookupSpec == Init /\ [][LookupNext]_vars

\* ------------------------------------------------- a query running beside fit
\* A caller runs one query while another caller may run fit.  fit shares with
\* the query the attribute self.ngram_counter alone, which it sets in the single
\* assignment of its last statement, the counter being built before in an object
\* of its own: fit is one step.  The query reads self.ngram_counter several
\* times; each read, with the local computation up to the next read, is a step.
\* reader.pc names the read the query makes next:
\*   gc_none       generate_completions: if self.ngram_counter is None
\*   iv_none       in_vocabulary:        if self.ngram_counter is None
\*   iv_count      in_vocabulary:        self.ngram_counter[word]
\*   gs_none       get_sentence:         if self.ngram_counter is None
\*   nw_none       get_next_word:        if self.ngram_counter is None
\*   nw_total      get_next_word:        self.ngram_counter.unigrams.N()
\*   nw_followers  get_next_word:        self.ngram_counter[conditional_word_tuple]
\* reader.nwret and reader.gsret name the caller get_next_word and get_sentence
\* return to.  reader.old and reader.oldc hold what the query returns when it
\* runs to its end on the counter it found at its start, and reader.refit tells
\* that fit has replaced the counter since.

\* get_sentence returns `sentence` to its caller
RetSentence(r, sentence) ==
    IF r.gsret = "top" THEN [r EXCEPT !.pc = "done", !.out = sentence]
    ELSE IF r.i >= Len(r.words)
         THEN [r EXCEPT !.pc = "done", !.done = Append(r.done, sentence)]
    ELSE [r EXCEPT !.pc = "gs_none", !.done = Append(r.done, sentence), !.i = r.i + 1,
                   !.sentence = Append(r.remaining, r.words[r.i + 1])]

\* get_next_word returns `words` to its caller
RetNextWord(r, words) ==
    IF r.nwret = "top" THEN [r EXCEPT !.pc = "done", !.out = words]
    ELSE IF r.nwret = "gs"
         THEN IF Len(words) = 0 \/ words[1] = RIGHT_SENT_PAD
              THEN RetSentence(r, r.sentence)
              ELSE IF r.left <= 1 THEN RetSentence(r, Append(r.sentence, words[1]))
              ELSE [r EXCEPT !.pc = "nw_none", !.sentence = Append(r.sentence, words[1]),
                             !.left = r.left - 1]
    ELSE IF Len(words) = 0 THEN [r EXCEPT !.pc = "done", !.words = words]
    ELSE [r EXCEPT !.pc = "gs_none", !.gsret = "gc", !.words = words, !.i = 1,
                   !.sentence = Append(r.remaining, words[1])]

\* in_vocabulary returns `in_vocab` to generate_completions, which calls
\* get_next_word
RetInVocabulary(r, tokenized_words, max_num_of_sentences, in_vocab) ==
    LET remaining == IF in_vocab THEN tokenized_words
                     ELSE SubSeq(tokenized_words, 1, Len(tokenized_words) - 1)
    IN [r EXCEPT !.pc = "nw_none", !.nwret = "gc", !.remaining = remaining,
                 !.sentence = remaining, !.top = max_num_of_sentences,
                 !.start = IF in_vocab THEN <<>> ELSE tokenized_words[Len(tokenized_words)]]

\* the words of get_next_word from the FreqDist and the total it has read
TopWords(followers, number_of_words, top_n, start_string) ==
    LET predicted_words == most_common(followers, number_of_words)
        matching == SelectSeq(predicted_words, LAMBDA p : StartsWith(p[1], start_string))
    IN Take([i \in 1..Len(matching) |-> matching[i][1]], top_n)

\* the step of the query that reads `counter` at reader.pc
ReadStep(r, counter, c) ==
    IF r.pc = "gc_none"
    THEN IF counter = None \/ Len(c.prefix) = 0 THEN [r EXCEPT !.pc = "done"]
         ELSE [r EXCEPT !.pc = "iv_none"]
    ELSE IF r.pc = "iv_none"
    THEN IF counter = None THEN RetInVocabulary(r, c.prefix, c.num, FALSE)
         ELSE [r EXCEPT !.pc = "iv_count"]
    ELSE IF r.pc = "iv_count"
    THEN RetInVocabulary(r, c.prefix, c.num,
                         Freq(counter[1], c.prefix[Len(c.prefix)]) > COUNT_THRESHOLD)
    ELSE IF r.pc = "gs_none"
    THEN IF counter = None THEN RetSentence(r, <<>>)
         ELSE IF Len(r.sentence) >= c.cap \/ Len(r.sentence) = 0
              THEN RetSentence(r, r.sentence)
         ELSE [r EXCEPT !.pc = "nw_none", !.nwret = "gs", !.top = 1, !.start = <<>>,
                        !.left = c.cap - Len(r.sentence)]
    ELSE IF r.pc = "nw_none"
    THEN IF counter = None \/ Len(r.sentence) < 1 THEN RetNextWord(r, <<>>)
         ELSE [r EXCEPT !.pc = "nw_total"]
    ELSE IF r.pc = "nw_total"
    THEN [r EXCEPT !.pc = "nw_followers", !.total = N(counter[1])]
    ELSE RetNextWord(r, TopWords(ContextDist(counter, LastTwo(r.sentence)),
                                 r.total, r.top, r.start))

\* fit beside a query: at most one fit while the query runs
FitBeside ==
    /\ reader.pc = "idle" \/ ~reader.refit
    /\ \E t \in LookupModels :
        /\ corpus' = t[1]
        /\ ngram_counter' = t[2]
    /\ reader' = IF reader.pc = "idle" THEN reader ELSE [reader EXCEPT !.refit = TRUE]
    /\ UNCHANGED <<call, result, completions, known>>

CallGetNextWord ==
    /\ reader.pc = "idle"
    /\ \E prefix_string \in TokenizedPrefixes, top_n \in 0..MaxTopN,
          start_string \in StartStrings :
        /\ call' = [Idle EXCEPT !.op = "get_next_word", !.prefix = prefix_string,
                                !.num = top_n, !.start = start_string]
        /\ reader' = [Ready EXCEPT !.pc = "nw_none", !.sentence = prefix_string,
                                   !.top = top_n, !.start = start_string,
                                   !.old = get_next_word(ngram_counter, prefix_string,
                                                         top_n, start_string)]
    /\ UNCHANGED <<ngram_counter, corpus, result, completions, known>>

CallGetSentence ==
    /\ reader.pc = "idle"
    /\ \E prefix_string \in TokenizedPrefixes, max_sentence_length \in 0..MaxCap :
        /\ call' = [Idle EXCEPT !.op = "get_sentence", !.prefix = prefix_string,
                                !.cap = max_sentence_length]
        /\ reader' = [Ready EXCEPT !.pc = "gs_none", !.sentence = prefix_string,
                                   !.old = get_sentence(ngram_counter, prefix_string,
                                                        max_sentence_length)]
    /\ UNCHANGED <<ngram_counter, corpus, result, completions, known>>

CallGenerateCompletions ==
    /\ reader.pc = "idle"
    /\ \E tokenized_words \in TokenizedPrefixes, max_sentence_length \in 0..MaxCap,
          max_num_of_sentences \in 0..MaxTopN :
        /\ call' = [Idle EXCEPT !.op = "generate_completions", !.prefix = tokenized_words,
                                !.num = max_num_of_sentences, !.cap = max_sentence_length]
        /\ reader' = [Ready EXCEPT !.pc = "gc_none",
                                   !.oldc = generate_completions(ngram_counter, tokenized_words,
                                                max_sentence_length, max_num_of_sentences)]
    /\ UNCHANGED <<ngram_counter, corpus, result, completions, known>>

\* one read of self.ngram_counter by the running query; the read that ends the
\* query hands the value to the caller
Read ==
    /\ reader.pc \notin {"idle", "done"}
    /\ reader' = ReadStep(reader, ngram_counter, call)
    /\ result' = IF reader'.pc = "done" THEN reader'.out ELSE result
    /\ completions' = IF reader'.pc = "done" THEN reader'.done ELSE completions
    /\ UNCHANGED <<ngram_counter, corpus, call, known>>

\* the caller takes the value; the next query may start
Taken ==
    /\ reader.pc = "done"
    /\ call' = Idle
    /\ reader' = Ready
    /\ result' = <<>>
    /\ completions' = <<>>
    /\ UNCHANGED <<ngram_counter, corpus, known>>

BesideNext ==
    \/ FitBeside
    \/ CallGetNextWord
    \/ CallGetSentence
    \/ CallGenerateCompletions
    \/ Read
    \/ Taken

BesideSpec == Init /\ [][BesideNext]_vars

\* ------------------------------------------------------------ reference
\* What the training corpus says, computed from the sentences alone, without the
\* counter: the properties below compare the program's results with it.

\* the k-th token of the sentence padded for order n
PaddedAt(sentence, n, k) ==
    IF k < n THEN LEFT_SENT_PAD
    ELSE IF k < n + Len(sentence) THEN sentence[k - n + 1]
    ELSE RIGHT_SENT_PAD

\* the positions at which the n-gram `gram` occurs in the padded sentence
WindowsAt(sentence, gram) ==
    LET n == Len(gram)
    IN {i \in 1..(Len(sentence) + n - 1) :
            \A j \in 1..n : PaddedAt(sentence, n, i + j - 1) = gram[j]}

\* the number of occurrences of `gram` in the runs c[1..k]
RECURSIVE Occurrences(_, _, _)
Occurrences(c, k, gram) ==
    IF k = 0 THEN 0
    ELSE Occurrences(c, k - 1, gram) + c[k][2] * Cardinality(WindowsAt(c[k][1], gram))

Occ(gram) == Occurrences(corpus, Len(corpus), gram)

\* the number of n-grams of order n the corpus holds: L + n - 1 for each sentence
RECURSIVE NgramsOfOrder(_, _, _)
NgramsOfOrder(c, k, n) ==
    IF k = 0 THEN 0
    ELSE NgramsOfOrder(c, k - 1, n) + c[k][2] * (Len(c[k][1]) + n - 1)

\* when `gram` is first seen in training: by sentence, then by position in it
FirstSeen(gram) ==
    LET seen == {r \in 1..Len(corpus) : WindowsAt(corpus[r][1], gram) # {}}
        r == CHOOSE x \in seen : \A y \in seen : x <= y
        at == WindowsAt(corpus[r][1], gram)
    IN r * (MaxBigrams + 3) + (CHOOSE i \in at : \A j \in at : i <= j)

\* w ranks before v after the context: more often, or as often and seen earlier
Before(context, w, v) ==
    \/ Occ(Append(context, w)) > Occ(Append(context, v))
    \/ /\ Occ(Append(context, w)) = Occ(Append(context, v))
       /\ FirstSeen(Append(context, w)) < FirstSeen(Append(context, v))

RECURSIVE Ranked(_, _)
Ranked(context, words) ==
    IF words = {} THEN <<>>
    ELSE LET top == CHOOSE w \in words : \A v \in words \ {w} : Before(context, w, v)
         IN <<top>> \o Ranked(context, words \ {top})

\* every word seen after the context in training, in rank order
Followers(context) ==
    Ranked(context, {w \in Tokens : Occ(Append(context, w)) > 0})

Fitted == ngram_counter # None

\* the last two tokens of the prefix, all of it when it is shorter
ContextOf(prefix) ==
    [i \in 1..(IF Len(prefix) < 2 THEN Len(prefix) ELSE 2) |->
        prefix[Len(prefix) - (IF Len(prefix) < 2 THEN Len(prefix) ELSE 2) + i]]

\* s is a prefix of the word w
IsPrefixOf(s, w) == Len(s) <= Len(w) /\ \A k \in 1..Len(s) : w[k] = s[k]

\* the followers of the context that begin with `start`, in rank order
Matching(context, start) == SelectSeq(Followers(context), LAMBDA w : IsPrefixOf(start, w))

\* the first n elements, all of them when there are fewer
FirstN(seq, n) == [i \in 1..(IF n < Len(seq) THEN n ELSE Len(seq)) |-> seq[i]]

Max(a, b) == IF a >= b THEN a ELSE b

\* the model was built from zero sentences
EmptyModel == Fitted /\ corpus = <<>>

\* generate_completions: whether the last token of the call's prefix counts as a
\* partial word, the tokens left as context, and the constraint on the next word
LastToken == call.prefix[Len(call.prefix)]
LastIsPartial == ~(Occ(<<LastToken>>) > COUNT_THRESHOLD)
RemainingTokens ==
    IF LastIsPartial THEN SubSeq(call.prefix, 1, Len(call.prefix) - 1) ELSE call.prefix
Constraint == IF LastIsPartial THEN LastToken ELSE <<>>

\* the sum of the counts the counter stores at order n
RECURSIVE SumOver(_, _)
SumOver(cfd, contexts) ==
    IF contexts = {} THEN 0
    ELSE LET c == CHOOSE x \in contexts : TRUE
         IN N(cfd[c]) + SumOver(cfd, contexts \ {c})

StoredTotal(n) ==
    IF n = 1 THEN N(ngram_counter[1])
    ELSE SumOver(ngram_counter[n], DOMAIN ngram_counter[n])

\* the count the counter stores for the n-gram
Stored(gram) ==
    IF Len(gram) = 1 THEN Freq(ngram_counter[1], gram[1])
    ELSE Freq(ContextDist(ngram_counter, SubSeq(gram, 1, Len(gram) - 1)), gram[Len(gram)])

\* ---------------------------------------------------------------- claims

\* C1: after fit, for every order n in 1..3 and every (context, word) the stored
\* count is the number of width-n windows context + word in the sentences padded
\* with n-1 START and n-1 END, summed over the sentences, 0 for a pair never
\* observed; each sentence of L tokens contributes L+n-1 n-grams at order n, and
\* no sentinel is counted as a unigram.
C1_CountsAreWindowCounts ==
    (Fitted /\ call.op = "idle") =>
        /\ \A n \in 1..3 : \A gram \in SeqsOfLen(Tokens, n) : Stored(gram) = Occ(gram)
        /\ \A n \in 1..3 : StoredTotal(n) = NgramsOfOrder(corpus, Len(corpus), n)
        /\ Stored(<<LEFT_SENT_PAD>>) = 0 /\ Stored(<<RIGHT_SENT_PAD>>) = 0

\* C1 witness: a fitted counter whose corpus repeats a sentence start, so that a
\* padded trigram is counted more than once and a boundary bigram exists
C1_Witness ==
    /\ Fitted /\ call.op = "idle"
    /\ Len(corpus) >= 2
    /\ Stored(<<LEFT_SENT_PAD, LEFT_SENT_PAD, <<"h">>>>) = COUNT_THRESHOLD + 1
    /\ Stored(<<<<"h">>, RIGHT_SENT_PAD>>) = COUNT_THRESHOLD + 1

\* C2: the words get_next_word returns are in non-increasing order of their count
\* after the context, and words of equal count are in the order in which they
\* were first seen after the context in training.
C2_RankedByCountThenFirstSeen ==
    (Fitted /\ call.op = "get_next_word") =>
        \A i \in 1..Len(result) : \A j \in (i + 1)..Len(result) :
            Before(ContextOf(call.prefix), result[i], result[j])

\* C2 witness: two words of equal count returned in first-seen order, which is
\* not their lexicographic order
C2_Witness ==
    /\ Fitted /\ call.op = "get_next_word"
    /\ result = <<<<"h", "e">>, <<"h">>>>
    /\ Occ(Append(ContextOf(call.prefix), <<"h">>))
         = Occ(Append(ContextOf(call.prefix), <<"h", "e">>))

\* C3: get_next_word returns exactly the first top_n words of the full count-ranked
\* follower list of the context filtered by start_string, for every corpus (empty
\* sentences included), every prefix of at least one token and every top_n >= 0:
\* the cap of most_common at the total unigram count drops no matching candidate.
C3_FirstTopNOfAllFollowers ==
    (Fitted /\ call.op = "get_next_word" /\ Len(call.prefix) >= 1) =>
        result = FirstN(Matching(ContextOf(call.prefix), call.start), call.num)

\* C4: get_next_word returns at most top_n words, and each of them begins with
\* start_string, in every state of the model, fitted or not.
C4_AtMostTopNAllStartWith ==
    call.op = "get_next_word" =>
        /\ Len(result) <= call.num
        /\ \A i \in 1..Len(result) : IsPrefixOf(call.start, result[i])

\* C4 witness: more followers begin with a non-empty start_string than top_n
\* allows, and top_n of them are returned
C4_Witness ==
    /\ Fitted /\ call.op = "get_next_word"
    /\ call.start # <<>> /\ call.num >= 1
    /\ Len(Matching(ContextOf(call.prefix), call.start)) > call.num
    /\ Len(result) = call.num

C6_OneTokenBigramFollowers ==
    (Fitted /\ call.op = "get_next_word" /\ Len(call.prefix) = 1) =>
        /\ result = FirstN(Matching(call.prefix, call.start), call.num)
        /\ (Occ(call.prefix) > 0 /\ call.start = <<>> /\ call.num >= 1) => result # <<>>

C8_NoEndSentinel ==
    (Fitted /\ call.op = "get_sentence" /\ \A i \in 1..Len(call.prefix) : call.prefix[i] \in Vocab) =>
        \A i \in 1..Len(result) : result[i] # RIGHT_SENT_PAD

\* C8 witness: the growth stopped below the cap because END was the top candidate
C8_Witness ==
    /\ Fitted /\ call.op = "get_sentence"
    /\ \A i \in 1..Len(call.prefix) : call.prefix[i] \in Vocab
    /\ Len(call.prefix) >= 1
    /\ Len(result) > Len(call.prefix)
    /\ Len(result) < call.cap
    /\ Matching(ContextOf(result), <<>>) # <<>>
    /\ Matching(ContextOf(result), <<>>)[1] = RIGHT_SENT_PAD

C10_OneSentencePerCandidate ==
    (Fitted /\ call.op = "generate_completions" /\ Len(call.prefix) >= 1) =>
        LET words == get_next_word(ngram_counter, RemainingTokens, call.num, Constraint)
        IN /\ words = FirstN(Matching(ContextOf(RemainingTokens), Constraint), call.num)
              \/ RemainingTokens = <<>>
           /\ Len(completions) = Len(words)
           /\ \A i \in 1..Len(completions) :
                 completions[i] = get_sentence(ngram_counter,
                                              Append(RemainingTokens, words[i]), call.cap)
           /\ Len(completions) <= call.num
           /\ RemainingTokens = <<>> => completions = <<>>

\* C10 witness: the last token is counted more than 50 times, so it is kept, and
\* a completion is produced from it
C10_Witness ==
    /\ Fitted /\ call.op = "generate_completions"
    /\ Len(call.prefix) >= 1
    /\ Occ(<<LastToken>>) = COUNT_THRESHOLD + 1
    /\ RemainingTokens = call.prefix
    /\ Len(completions) >= 1
    /\ \A k \in 1..Len(call.prefix) : completions[1][k] = call.prefix[k]

\* the counter fit built from the corpus, before any query
Built == (CHOOSE t \in TrainedModels : t[1] = corpus)[2]

\* the contexts a query can look up: one or two tokens
Contexts == SeqsOfLen(Tokens, 1) \cup SeqsOfLen(Tokens, 2)

\* C11: two calls of generate_completions with the same prefix and parameters on
\* a built model return the same ordered list, whatever queries ran in between:
\* every call returns what the counter as fit built it gives for its arguments,
\* since the unigram counts and the ranked followers of every context stay what
\* fit stored, the lookups of unseen contexts leaving empty entries only.
C11_Idempotent ==
    Fitted =>
        \A built \in {Built} :
            /\ call.op = "generate_completions" =>
                  completions = generate_completions(built, call.prefix, call.cap, call.num)
            /\ ngram_counter[1] = built[1]
            /\ \A context \in Contexts :
                  ContextDist(ngram_counter, context) = ContextDist(built, context)

\* C11 witness: generate_completions returns sentences from a two-token context
\* on a counter in which an earlier query has left an entry for an unseen
\* one-token context
C11_Witness ==
    /\ Fitted /\ call.op = "generate_completions"
    /\ Len(call.prefix) >= 1
    /\ Len(RemainingTokens) = 2
    /\ DOMAIN ngram_counter[2] # DOMAIN Built[2]
    /\ completions # <<>>

\* C12: fit publishes a completely built counter by one assignment, so a query
\* that runs beside a fit never reads a partly built counter, and what it
\* returns is what the same query returns run entirely on the counter it found
\* at its start or entirely on the counter fit has put in its place.
C12_AtomicForReaders ==
    /\ Fitted => ngram_counter = Built
    /\ (reader.pc = "done" /\ call.op = "get_next_word") =>
          \/ result = reader.old
          \/ result = get_next_word(ngram_counter, call.prefix, call.num, call.start)
    /\ (reader.pc = "done" /\ call.op = "get_sentence") =>
          \/ result = reader.old
          \/ result = get_sentence(ngram_counter, call.prefix, call.cap)
    /\ (reader.pc = "done" /\ call.op = "generate_completions") =>
          \/ completions = reader.oldc
          \/ completions = generate_completions(ngram_counter, call.prefix,
                                                call.cap, call.num)

\* what get_next_word(sequence, 1) returns on the stored counter
TopCandidate(sequence) == get_next_word(ngram_counter, sequence, 1, <<>>)

\* the state of the growth at the sequence get_sentence returned
StopState ==
    IF Len(result) = call.cap THEN "STOPPED_AT_LENGTH_CAP"
    ELSE IF TopCandidate(result) = <<>> THEN "STOPPED_NO_CANDIDATE"
    ELSE IF TopCandidate(result) = <<RIGHT_SENT_PAD>> THEN "STOPPED_AT_END_SENTINEL"
    ELSE "GROWING"

\* C13: on a built model, for a prefix with 0 < len(prefix) < max_sentence_length
\* get_sentence returns the prefix followed by k >= 0 words, each the single top
\* candidate get_next_word(sequence so far, 1) and none the END sentinel, and the
\* returned sequence is in one terminal state: at the length cap, or below it
\* with no candidate, or below it with END as the top candidate; no word is
\* appended after a sequence at which a stop condition holds.  A prefix of no
\* token or of max_sentence_length tokens or more is returned unchanged.
C13_GreedyGrowth ==
    (Fitted /\ call.op = "get_sentence") =>
        /\ (0 < Len(call.prefix) /\ Len(call.prefix) < call.cap) =>
              /\ Len(result) >= Len(call.prefix)
              /\ SubSeq(result, 1, Len(call.prefix)) = call.prefix
              /\ \A k \in (Len(call.prefix) + 1)..Len(result) :
                    /\ TopCandidate(SubSeq(result, 1, k - 1)) = <<result[k]>>
                    /\ result[k] # RIGHT_SENT_PAD
                    /\ k <= call.cap
              /\ StopState # "GROWING"
        /\ (Len(call.prefix) = 0 \/ Len(call.prefix) >= call.cap) => result = call.prefix

\* C13 witness: two words or more were appended and the growth stopped below the
\* cap at the END sentinel
C13_Witness ==
    /\ Fitted /\ call.op = "get_sentence"
    /\ 0 < Len(call.prefix)
    /\ Len(result) >= Len(call.prefix) + 2
    /\ Len(result) < call.cap
    /\ StopState = "STOPPED_AT_END_SENTINEL"

\* C14: no sequence of tokens generate_completions hands to the detokenizer
\* holds the END sentinel or the START sentinel, for every built model, prefix,
\* max_sentence_length and max_num_of_sentences.
C14_NoSentinelInCompletions ==
    (Fitted /\ call.op = "generate_completions") =>
        \A i \in 1..Len(completions) : \A k \in 1..Len(completions[i]) :
            completions[i][k] \notin {RIGHT_SENT_PAD, LEFT_SENT_PAD}
====
